---- MODULE Spec2Model ----
(***************************************************************************)
(* Verification model of the 2N intercom integration:                      *)
(*   - the polling coordinator of custom_components/twon_intercom          *)
(*     (ring-edge detection, retry counting, classified cycle outcomes),   *)
(*   - the relay switch of custom_components/2n_intercom (pulse / revert), *)
(*   - the snapshot cache of the coordinator (async_get_snapshot),         *)
(*   - the snapshot request of the device client with its fallback retry,  *)
(*   - the lock of twon_intercom and the cover of 2n_intercom,             *)
(*   - the poll cycle and action methods of two_n_intercom.                *)
(* Poll time is counted in whole seconds, snapshot time in ticks.          *)
(***************************************************************************)
EXTENDS Integers, Sequences, FiniteSets, TLC

(***************************************************************************)
(* Bounds of the model.                                                    *)
(***************************************************************************)
MaxTime == 80          \* the clock stops here
MaxStreak == 7         \* the streak history counter saturates here
MaxTriggers == 3       \* turn-on invocations of one switch
MaxTick == 4           \* the snapshot clock stops here
TicksPerSecond == 2    \* resolution of the snapshot clock
MaxSnapshots == 3      \* async_get_snapshot invocations
MaxUnlocks == 3        \* async_unlock / async_open invocations of one lock
MaxRelays == 2         \* async_trigger_relay calls beside the poll cycles
MaxCommands == 3       \* open / close commands of one cover
MaxEvents == 3         \* coordinator updates handled by the event entity

(***************************************************************************)
(* Program constants.                                                      *)
(***************************************************************************)
MAX_RETRIES == 5       \* coordinator.py:22
RING_TIMEOUT == 30     \* coordinator.py:81
MAX_DELAY == 60        \* coordinator.py:113
SNAPSHOT_TTL == 1      \* coordinator.py:199, seconds
DEFAULT_WIDTH == 640   \* api.py:315
DEFAULT_HEIGHT == 480  \* api.py:317
ERROR_UNSUPPORTED == 12 \* api.py:348

\* Seconds that may pass between two poll cycles (cycles run on the timer
\* and on request, so the gaps are not tied to the poll interval).
Steps == {10, 20, 31}

\* Optional values: None is the empty sequence, Some(x) a one-element one.
None == <<>>
Some(x) == <<x>>
Val(o) == o[1]

(***************************************************************************)
(* Call status dictionaries as the device client returns them.             *)
(***************************************************************************)
NoCaller == {}
Alice == {<<"name", "Alice">>, <<"number", "123">>}

EmptyDict == [keys |-> {}, state |-> "", caller |-> NoCaller]
StatusOf(s) == [keys |-> {"state"}, state |-> s, caller |-> NoCaller]
StatusWith(s, c) == [keys |-> {"state", "caller"}, state |-> s, caller |-> c]

CallStatuses ==
    { EmptyDict, StatusOf("idle"), StatusOf("ringing"), StatusOf("active"),
      StatusWith("ringing", Alice), StatusWith("idle", NoCaller) }

\* dict.get(key, default)
GetState(d) == IF "state" \in d.keys THEN d.state ELSE "idle"
GetCaller(d) == IF "caller" \in d.keys THEN d.caller ELSE NoCaller

VARIABLES
    now,               \* datetime.now(), in seconds
    scan_interval,     \* constructor argument
    update_interval,   \* the coordinator's poll interval
    last_call_state,   \* self._last_call_state
    ring_detected,     \* self._ring_detected
    last_ring_time,    \* self._last_ring_time
    retry_count,       \* self._retry_count
    data,              \* self.data: the last published TwoNIntercomData
    cycle,             \* the last poll cycle: its inputs, locals and outcome
    streak,            \* history: the current run of connection failures
    edge_seen,         \* history: time of the last transition into ringing
    ringing_seen,      \* history: time ringing was last observed
    matched,           \* history: how far the last cycles match the scenario
    outage,            \* history: the cycles since the last one that published
    last_update_success, \* the coordinator attribute the entities read
    auth_run,          \* history: the current run of authentication failures
    last_relay,        \* what the last async_trigger_relay returned
    relay_calls,       \* history: async_trigger_relay calls made so far
    is_on,             \* switch: self._attr_is_on
    turning_off_task,  \* switch: self._turning_off_task, 0 for None
    task,              \* switch: the revert task each turn-on created
    call,              \* switch: where each async_turn_on invocation stands
    fired_at_start,    \* history: reverts that had fired when it started
    turned_off,        \* history: async_turn_off was called
    sent,              \* history: relay requests each turn-on has sent
    last_act,          \* history: the last step of the switch
    tick,              \* snapshot: datetime.now(), in ticks
    snapshot_cache,    \* snapshot: self._snapshot_cache
    snapshot_cache_time, \* snapshot: self._snapshot_cache_time
    snap,              \* snapshot: where each async_get_snapshot stands
    snap_last,         \* history: the last device request that returned:
                       \* what it fetched, what the call returned and the
                       \* cache before and after
    fetch,             \* client: one api.async_get_snapshot call
    is_locked,         \* lock: self._attr_is_locked
    unlock,            \* lock: where each async_unlock invocation stands
    lock_act,          \* history: the last step of the lock
    twon_data,         \* multi-endpoint coordinator: self.data
    twon_cycle,        \* history: the outcome of its last cycle
    twon_action,       \* history: its last action method call
    is_closed,         \* cover: self._attr_is_closed
    is_opening,        \* cover: self._is_opening
    is_closing,        \* cover: self._is_closing
    state_task,        \* cover: self._state_task, 0 for None
    command,           \* cover: where each open / close command stands
    ctask,             \* cover: the state task each command created
    timers,            \* cover: the state tasks in the order they were created
    last_event_time,   \* event entity: _last_event_time
    events,            \* event entity: the timestamps of the events fired
    handled,           \* event entity: coordinator updates handled so far
    event_last         \* history: the last update handled by the event entity

pollVars == <<now, scan_interval, update_interval, last_call_state,
              ring_detected, last_ring_time, retry_count, data, cycle, streak,
              edge_seen, ringing_seen, matched, outage,
              last_update_success,
              auth_run, last_relay, relay_calls>>

switchVars == <<is_on, turning_off_task, task, call, fired_at_start,
                turned_off, sent, last_act>>

snapVars == <<tick, snapshot_cache, snapshot_cache_time, snap, snap_last>>

fetchVars == <<fetch>>

lockVars == <<is_locked, unlock, lock_act>>

twonVars == <<twon_data, twon_cycle, twon_action>>

coverVars == <<is_closed, is_opening, is_closing, state_task, command, ctask,
               timers>>

eventVars == <<last_event_time, events, handled, event_last>>

vars == <<pollVars, switchVars, snapVars, fetchVars, lockVars, twonVars,
          coverVars, eventVars>>

\* What the operations of one part leave alone.
otherThanPoll ==
    <<switchVars, snapVars, fetchVars, lockVars, twonVars, coverVars,
      eventVars>>
otherThanSwitch ==
    <<pollVars, snapVars, fetchVars, lockVars, twonVars, coverVars,
      eventVars>>
otherThanSnapshot ==
    <<pollVars, switchVars, fetchVars, lockVars, twonVars, coverVars,
      eventVars>>
otherThanFetch ==
    <<pollVars, switchVars, snapVars, lockVars, twonVars, coverVars,
      eventVars>>
otherThanLock ==
    <<pollVars, switchVars, snapVars, fetchVars, twonVars, coverVars,
      eventVars>>
otherThanTwoN ==
    <<pollVars, switchVars, snapVars, fetchVars, lockVars, coverVars,
      eventVars>>
otherThanCover ==
    <<pollVars, switchVars, snapVars, fetchVars, lockVars, twonVars,
      eventVars>>
otherThanEvent ==
    <<pollVars, switchVars, snapVars, fetchVars, lockVars, twonVars,
      coverVars>>

\* A cycle record: the kind of answer the device client gave, the locals
\* previous_state and current_state, the time, the ring flag, ring time and
\* retry counter the cycle found on entry, the outcome and the delay it
\* logged.
CycleOf(kind, prev, cur, t, outcome, delay) ==
    [kind |-> kind, prev |-> prev, cur |-> cur, at |-> t,
     ring_before |-> ring_detected, lrt_before |-> last_ring_time,
     retry_before |-> retry_count,
     outcome |-> outcome, delay |-> delay]

NoCycle == [kind |-> "none", prev |-> "", cur |-> "", at |-> 0,
            ring_before |-> FALSE, lrt_before |-> None, retry_before |-> 0,
            outcome |-> "none", delay |-> 0]

Min(a, b) == IF a < b THEN a ELSE b

(***************************************************************************)
(* Ring detection, coordinator.py lines 72-83: the new                     *)
(* (_ring_detected, _last_ring_time) of a successful cycle at time t.      *)
(***************************************************************************)
\* Variant: a rising edge raises the flag but takes no time stamp.
RingDetect_NoStamp(previous_state, current_state, ring, lrt, t) ==
    IF current_state = "ringing" /\ previous_state # "ringing"
    THEN [ring |-> TRUE, lrt |-> lrt]
    ELSE IF current_state # "ringing"
              /\ ring
              /\ (lrt = None \/ t - Val(lrt) > RING_TIMEOUT)
         THEN [ring |-> FALSE, lrt |-> lrt]
         ELSE [ring |-> ring, lrt |-> lrt]

\* Variant: every ringing cycle counts as an edge, not only the first.
RingDetect_EveryRinging(previous_state, current_state, ring, lrt, t) ==
    IF current_state = "ringing"
    THEN [ring |-> TRUE, lrt |-> Some(t)]
    ELSE IF current_state # "ringing"
              /\ ring
              /\ (lrt = None \/ t - Val(lrt) > RING_TIMEOUT)
         THEN [ring |-> FALSE, lrt |-> lrt]
         ELSE [ring |-> ring, lrt |-> lrt]

\* Variant: the timeout test is >= instead of >.
RingDetect_AtTimeout(previous_state, current_state, ring, lrt, t) ==
    IF current_state = "ringing" /\ previous_state # "ringing"
    THEN [ring |-> TRUE, lrt |-> Some(t)]
    ELSE IF current_state # "ringing"
              /\ ring
              /\ (lrt = None \/ t - Val(lrt) >= RING_TIMEOUT)
         THEN [ring |-> FALSE, lrt |-> lrt]
         ELSE [ring |-> ring, lrt |-> lrt]

\* Variant: the flag is dropped as soon as the state is not ringing.
RingDetect_ResetOnLeave(previous_state, current_state, ring, lrt, t) ==
    IF current_state = "ringing" /\ previous_state # "ringing"
    THEN [ring |-> TRUE, lrt |-> Some(t)]
    ELSE IF current_state # "ringing" /\ ring
         THEN [ring |-> FALSE, lrt |-> lrt]
         ELSE [ring |-> ring, lrt |-> lrt]

RingDetect(previous_state, current_state, ring, lrt, t) ==
    IF current_state = "ringing" /\ previous_state # "ringing"
    THEN [ring |-> TRUE, lrt |-> Some(t)]
    ELSE IF current_state # "ringing"
              /\ ring
              /\ (lrt = None \/ t - Val(lrt) > RING_TIMEOUT)
         THEN [ring |-> FALSE, lrt |-> lrt]
         ELSE [ring |-> ring, lrt |-> lrt]

\* The TwoNIntercomData a successful cycle returns, lines 88-95.
MakeData(call_status, lrt) ==
    [call_status |-> call_status,
     last_ring_time |-> lrt,
     caller_info |-> IF GetCaller(call_status) # NoCaller
                     THEN Some(GetCaller(call_status)) ELSE None,
     available |-> TRUE]

\* Properties of the coordinator, lines 137-157.
RingActive == IF data # None THEN ring_detected ELSE FALSE
LastRingTime == IF data # None THEN Val(data).last_ring_time ELSE None
CallerInfo ==
    IF data # None /\ Val(data).caller_info # None
    THEN Val(Val(data).caller_info) ELSE NoCaller

(***************************************************************************)
(* The streak history: n connection failures in a row, the first of which  *)
(* found the retry counter at base.                                        *)
(***************************************************************************)
NoStreak == [n |-> 0, base |-> 0]
StreakAfter(kind) ==
    IF kind = "conn"
    THEN [n |-> Min(streak.n + 1, MaxStreak),
          base |-> IF streak.n = 0 THEN retry_count ELSE streak.base]
    ELSE NoStreak

\* lines 99-106: whether the cycle that fails with an authentication error
\* logs the error and creates the "Authentication Failed" notification.
AuthReport == TRUE

\* The run history of authentication failures: n cycles in a row, reports
\* of which logged the error and created the notification.
NoAuthRun == [n |-> 0, reports |-> 0]
AuthRunAfter(kind) ==
    IF kind = "auth"
    THEN [n |-> Min(auth_run.n + 1, MaxStreak),
          reports |-> Min(auth_run.reports + (IF AuthReport THEN 1 ELSE 0),
                          MaxStreak)]
    ELSE NoAuthRun

(***************************************************************************)
(* _async_update_data, one branch per way the cycle can go.                *)
(***************************************************************************)
\* Variant: a successful cycle leaves the retry counter alone.
UpdateOk_NoReset(cs, t) ==
    LET current_state == GetState(cs)
        previous_state == GetState(last_call_state)
        r == RingDetect(previous_state, current_state, ring_detected,
                        last_ring_time, t)
    IN  /\ ring_detected' = r.ring
        /\ last_ring_time' = r.lrt
        /\ last_call_state' = cs
        /\ data' = Some(MakeData(cs, r.lrt))
        /\ cycle' = CycleOf("ok", previous_state, current_state, t, "DerivedState", 0)
        /\ UNCHANGED <<retry_count, update_interval>>

\* lines 63-95: the device call returned a dictionary.
UpdateOk(cs, t) ==
    LET current_state == GetState(cs)
        previous_state == GetState(last_call_state)
        r == RingDetect(previous_state, current_state, ring_detected,
                        last_ring_time, t)
    IN  /\ retry_count' = 0
        /\ ring_detected' = r.ring
        /\ last_ring_time' = r.lrt
        /\ last_call_state' = cs
        /\ data' = Some(MakeData(cs, r.lrt))
        /\ cycle' = CycleOf("ok", previous_state, current_state, t, "DerivedState", 0)
        /\ UNCHANGED update_interval

\* lines 63-69 and 132-135: the device call returned something that is no
\* dictionary, so call_status.get raises after the counter was reset.
UpdateMalformed(t) ==
    /\ retry_count' = 0
    /\ cycle' = CycleOf("malformed", "", "", t, "UpdateFailed", 0)
    /\ UNCHANGED <<ring_detected, last_ring_time, last_call_state, data,
                   update_interval>>

\* Variant: an authentication failure is counted and classified like a
\* connection failure.
UpdateAuthFailure_Counted(t) ==
    /\ retry_count' = Min(retry_count + 1, MAX_RETRIES)
    /\ cycle' = CycleOf("auth", "", "",  t,
                        IF retry_count < MAX_RETRIES THEN "UpdateFailed"
                        ELSE "AuthenticationRequired", 0)
    /\ UNCHANGED <<ring_detected, last_ring_time, last_call_state, data,
                   update_interval>>

\* lines 97-107: TwoNAuthenticationError, raised as ConfigEntryNotReady
\* ("Authentication failed").
UpdateAuthFailure(t) ==
    /\ cycle' = CycleOf("auth", "", "", t, "AuthenticationRequired", 0)
    /\ UNCHANGED <<retry_count, ring_detected, last_ring_time,
                   last_call_state, data, update_interval>>

\* lines 109-130: the new counter, the delay that is logged and the outcome
\* of a cycle that fails with a connection or timeout error.
\* Variant: the counter is incremented first and then compared to the bound.
ConnFailure_IncrementFirst(count) ==
    IF count + 1 < MAX_RETRIES
    THEN [count |-> count + 1,
          delay |-> Min(2 ^ (count + 1), MAX_DELAY),
          interval |-> update_interval,
          outcome |-> "UpdateFailed"]
    ELSE [count |-> Min(count + 1, MAX_RETRIES),
          delay |-> 0,
          interval |-> update_interval,
          outcome |-> "ExhaustedRetries"]

\* Variant: the computed delay becomes the poll interval.
ConnFailure_Backoff(count) ==
    IF count < MAX_RETRIES
    THEN [count |-> count + 1,
          delay |-> Min(2 ^ (count + 1), MAX_DELAY),
          interval |-> Min(2 ^ (count + 1), MAX_DELAY),
          outcome |-> "UpdateFailed"]
    ELSE [count |-> count,
          delay |-> 0,
          interval |-> update_interval,
          outcome |-> "ExhaustedRetries"]

\* Variant: every connection failure is counted and backed off.
ConnFailure_Unbounded(count) ==
    [count |-> count + 1,
     delay |-> Min(2 ^ (count + 1), MAX_DELAY),
     interval |-> update_interval,
     outcome |-> "UpdateFailed"]

ConnFailure(count) ==
    IF count < MAX_RETRIES
    THEN [count |-> count + 1,
          delay |-> Min(2 ^ (count + 1), MAX_DELAY),
          interval |-> update_interval,
          outcome |-> "UpdateFailed"]
    ELSE [count |-> count,
          delay |-> 0,
          interval |-> update_interval,
          outcome |-> "ExhaustedRetries"]

\* Variant: a cycle that cannot connect forgets the retained call state.
UpdateConnFailure_ForgetsState(t) ==
    LET c == ConnFailure(retry_count)
    IN  /\ retry_count' = c.count
        /\ update_interval' = c.interval
        /\ cycle' = CycleOf("conn", "", "", t, c.outcome, c.delay)
        /\ last_call_state' = EmptyDict
        /\ UNCHANGED <<ring_detected, last_ring_time, data>>

UpdateConnFailure(t) ==
    LET c == ConnFailure(retry_count)
    IN  /\ retry_count' = c.count
        /\ update_interval' = c.interval
        /\ cycle' = CycleOf("conn", "", "", t, c.outcome, c.delay)
        /\ UNCHANGED <<ring_detected, last_ring_time, last_call_state, data>>

\* Variant: the exception is handed on as it was raised.
UpdateOtherFailure_Escapes(t) ==
    /\ cycle' = CycleOf("other", "", "", t, "TwoNAPIError", 0)
    /\ UNCHANGED <<retry_count, ring_detected, last_ring_time,
                   last_call_state, data, update_interval>>

\* Variant: a failed cycle evaluates the ring timeout as well.
UpdateOtherFailure_ExpiresRing(t) ==
    /\ cycle' = CycleOf("other", "", "", t, "UpdateFailed", 0)
    /\ ring_detected' = RingDetect("", "", ring_detected, last_ring_time,
                                   t).ring
    /\ UNCHANGED <<retry_count, last_ring_time,
                   last_call_state, data, update_interval>>

\* lines 132-135: any other exception of the device call.
UpdateOtherFailure(t) ==
    /\ cycle' = CycleOf("other", "", "", t, "UpdateFailed", 0)
    /\ UNCHANGED <<retry_count, ring_detected, last_ring_time,
                   last_call_state, data, update_interval>>

(***************************************************************************)
(* History kept beside the program: it records what the cycles were fed    *)
(* and is read by no operation.                                            *)
(***************************************************************************)
\* The polled sequence idle, ringing with caller Alice, idle.
Matches(i, cs) ==
    IF i = 2 THEN cs = StatusWith("ringing", Alice) ELSE GetState(cs) = "idle"

MatchedAfter(cs) ==
    IF matched < 3 /\ Matches(matched + 1, cs) THEN matched + 1
    ELSE IF matched = 3 /\ Matches(2, cs) THEN 2
    ELSE IF Matches(1, cs) THEN 1
    ELSE 0

\* History of the cycles since the last one that published: the call state
\* that cycle polled, whether any cycle failed since and how many of them
\* failed to connect; after a cycle that published, whether it followed
\* failed cycles and the call state polled by the publishing cycle before.
NoOutage == [state |-> "", failed |-> FALSE, conn |-> 0,
             after_failed |-> FALSE, was |-> ""]

OutageAfter(kind) ==
    [state |-> outage.state, failed |-> TRUE,
     conn |-> IF kind = "conn" THEN Min(outage.conn + 1, MaxStreak)
              ELSE outage.conn,
     after_failed |-> FALSE, was |-> ""]

HistoryOk(cs, t) ==
    /\ outage' = [state |-> GetState(cs), failed |-> FALSE, conn |-> 0,
                  after_failed |-> outage.failed, was |-> outage.state]
    /\ streak' = NoStreak
    /\ auth_run' = NoAuthRun
    /\ edge_seen' = IF GetState(cs) = "ringing"
                       /\ GetState(last_call_state) # "ringing"
                    THEN Some(t) ELSE edge_seen
    /\ ringing_seen' = IF GetState(cs) = "ringing" THEN Some(t)
                       ELSE ringing_seen
    /\ matched' = MatchedAfter(cs)

HistoryFailed(kind) ==
    /\ outage' = OutageAfter(kind)
    /\ streak' = StreakAfter(kind)
    /\ auth_run' = AuthRunAfter(kind)
    /\ UNCHANGED <<edge_seen, ringing_seen, matched>>

\* The clock at the cycle that starts dt seconds after the previous one.
Advance(dt) ==
    /\ now + dt <= MaxTime
    /\ now' = now + dt
    /\ UNCHANGED scan_interval

(***************************************************************************)
(* The poll cycles.                                                        *)
(***************************************************************************)
PollOk(dt, cs) ==
    /\ Advance(dt)
    /\ UpdateOk(cs, now + dt)
    /\ HistoryOk(cs, now + dt)
    /\ last_update_success' = TRUE
    /\ UNCHANGED <<last_relay, relay_calls>>
    /\ UNCHANGED otherThanPoll

PollMalformed(dt) ==
    /\ Advance(dt)
    /\ UpdateMalformed(now + dt)
    /\ HistoryFailed("malformed")
    /\ last_update_success' = FALSE
    /\ UNCHANGED <<last_relay, relay_calls>>
    /\ UNCHANGED otherThanPoll

PollAuthFailure(dt) ==
    /\ Advance(dt)
    /\ UpdateAuthFailure(now + dt)
    /\ HistoryFailed("auth")
    /\ last_update_success' = FALSE
    /\ UNCHANGED <<last_relay, relay_calls>>
    /\ UNCHANGED otherThanPoll

PollConnFailure(dt) ==
    /\ Advance(dt)
    /\ UpdateConnFailure(now + dt)
    /\ HistoryFailed("conn")
    /\ last_update_success' = FALSE
    /\ UNCHANGED <<last_relay, relay_calls>>
    /\ UNCHANGED otherThanPoll

PollOtherFailure(dt) ==
    /\ Advance(dt)
    /\ UpdateOtherFailure(now + dt)
    /\ HistoryFailed("other")
    /\ last_update_success' = FALSE
    /\ UNCHANGED <<last_relay, relay_calls>>
    /\ UNCHANGED otherThanPoll

(***************************************************************************)
(* The multi-endpoint coordinator, two_n_intercom/coordinator.py.          *)
(***************************************************************************)
\* What one endpoint can answer.
EndpointAnswers ==
    {"json", "empty_json", "404", "401", "http_error", "client_error",
     "timeout", "bad_json"}

\* Variant: a 404 is raised like any other HTTP error.
ApiRequest_404Raises(a) ==
    CASE a = "json" -> [raised |-> "", value |-> "dict"]
      [] a = "empty_json" -> [raised |-> "", value |-> "empty"]
      [] a \in {"404", "401", "http_error"} ->
            [raised |-> "ClientResponseError", value |-> ""]
      [] a = "client_error" -> [raised |-> "ClientError", value |-> ""]
      [] a = "timeout" -> [raised |-> "TimeoutError", value |-> ""]
      [] OTHER -> [raised |-> "JSONDecodeError", value |-> ""]

\* _api_request, lines 113-133: the value returned or the exception raised.
ApiRequest(a) ==
    CASE a = "json" -> [raised |-> "", value |-> "dict"]
      [] a = "empty_json" -> [raised |-> "", value |-> "empty"]
      [] a = "404" -> [raised |-> "", value |-> "None"]
      [] a \in {"401", "http_error"} ->
            [raised |-> "ClientResponseError", value |-> ""]
      [] a = "client_error" -> [raised |-> "ClientError", value |-> ""]
      [] a = "timeout" -> [raised |-> "TimeoutError", value |-> ""]
      [] OTHER -> [raised |-> "JSONDecodeError", value |-> ""]

Endpoints == <<"status", "switch_caps", "call_status">>

\* _async_update_data, lines 83-111, fed the answers of the three
\* endpoints: the first exception ends the cycle as UpdateFailed, otherwise
\* the truthy answers are published under their keys.
TwoNUpdate(answers) ==
    LET failed == {i \in 1..3 : ApiRequest(answers[i]).raised # ""}
    IN  IF failed # {}
        THEN [outcome |-> "UpdateFailed", keys |-> {}]
        ELSE [outcome |-> "DerivedState",
              keys |-> {Endpoints[i] : i \in
                           {j \in 1..3 : ApiRequest(answers[j]).value = "dict"}}]

\* History of a cycle, taken from the answers it was fed: whether any
\* endpoint failed otherwise than by a 404; if none did, the endpoints that
\* answered 404 and those that answered an empty document; if one did, the
\* data published before the cycle.
Fed(answers) ==
    LET broken == \E i \in 1..3 :
                     answers[i] \notin {"json", "empty_json", "404"}
    IN  [broken |-> broken,
         missing |-> IF broken THEN {}
                     ELSE {Endpoints[i] : i \in
                              {j \in 1..3 : answers[j] = "404"}},
         empty |-> IF broken THEN {}
                   ELSE {Endpoints[i] : i \in
                            {j \in 1..3 : answers[j] = "empty_json"}},
         before |-> IF broken THEN twon_data ELSE None]

\* One poll cycle of the multi-endpoint coordinator: the framework keeps
\* the data of the last successful cycle when a cycle fails.
TwoNPoll(answers) ==
    LET r == TwoNUpdate(answers)
    IN  /\ twon_data' = IF r.outcome = "DerivedState" THEN Some(r.keys)
                        ELSE twon_data
        /\ twon_cycle' = Some([outcome |-> r.outcome, keys |-> r.keys,
                               fed |-> Fed(answers)])
        /\ UNCHANGED twon_action
        /\ UNCHANGED otherThanTwoN

\* What the switch-control endpoint can answer to an action request.
ActionAnswers ==
    {"success_true", "success_false", "401", "http_error", "client_error",
     "timeout", "bad_json"}

\* async_open_door, lines 196-209, and async_switch_control, lines
\* 146-157: the parsed answer is returned as it is; a ClientError is
\* logged and raised again, any other exception is not caught.
ActionRequest(a) ==
    CASE a \in {"success_true", "success_false"} ->
            [raised |-> "", value |-> "dict"]
      [] a \in {"401", "http_error"} ->
            [raised |-> "ClientResponseError", value |-> ""]
      [] a = "client_error" -> [raised |-> "ClientError", value |-> ""]
      [] a = "timeout" -> [raised |-> "TimeoutError", value |-> ""]
      [] OTHER -> [raised |-> "JSONDecodeError", value |-> ""]

\* async_open_door(switch), lines 181-209.
TwoNOpenDoor(a) ==
    /\ twon_action' = Some([method |-> "async_open_door", answer |-> a,
                            raised |-> ActionRequest(a).raised,
                            value |-> ActionRequest(a).value])
    /\ UNCHANGED <<twon_data, twon_cycle>>
    /\ UNCHANGED otherThanTwoN

\* async_switch_control(switch_type, state), lines 135-157.
TwoNSwitchControl(a) ==
    /\ twon_action' = Some([method |-> "async_switch_control", answer |-> a,
                            raised |-> ActionRequest(a).raised,
                            value |-> ActionRequest(a).value])
    /\ UNCHANGED <<twon_data, twon_cycle>>
    /\ UNCHANGED otherThanTwoN

TwoNInit ==
    /\ twon_data = None
    /\ twon_cycle = None
    /\ twon_action = None

TwoNNext ==
    \/ \E answers \in [1..3 -> EndpointAnswers] : TwoNPoll(answers)
    \/ \E a \in ActionAnswers : TwoNOpenDoor(a)
    \/ \E a \in ActionAnswers : TwoNSwitchControl(a)

(***************************************************************************)
(* The relay switch, 2n_intercom/switch.py.  Invocation k of async_turn_on *)
(* is suspended in its device call while call[k] = "awaiting"; the revert  *)
(* task it creates is task[k].  A task sleeps until its timer fires or a   *)
(* cancellation requested with cancel() is delivered to it.                *)
(***************************************************************************)
Triggers == 1..MaxTriggers

\* What the relay request of one trigger can end in.
RelayResults == {"success", "refused", "timeout", "error"}

\* api.async_switch_control: the "success" field of the answer, False on a
\* timeout or any other error.
SwitchControl(result) == result = "success"

\* coordinator.async_trigger_relay hands that value on.
TriggerRelay(result) == SwitchControl(result)

\* Variant: a failed relay request is counted as a failed connection.
RelayTriggered_CountsFailure(result) ==
    /\ relay_calls < MaxRelays
    /\ relay_calls' = relay_calls + 1
    /\ last_relay' = Some(TriggerRelay(result))
    /\ retry_count' = IF TriggerRelay(result) THEN retry_count
                      ELSE Min(retry_count + 1, MAX_RETRIES)
    /\ UNCHANGED <<now, scan_interval, update_interval, last_call_state,
                   ring_detected, last_ring_time, data, cycle,
                   streak, edge_seen, ringing_seen, matched, outage,
                   last_update_success, auth_run>>
    /\ UNCHANGED otherThanPoll

\* async_trigger_relay, coordinator.py lines 159-188: the relay request is
\* sent and its result handed back; no attribute of the coordinator is
\* written, whether the request succeeds, is refused or raises.
RelayTriggered(result) ==
    /\ relay_calls < MaxRelays
    /\ relay_calls' = relay_calls + 1
    /\ last_relay' = Some(TriggerRelay(result))
    /\ UNCHANGED <<now, scan_interval, update_interval, last_call_state,
                   ring_detected, last_ring_time, retry_count, data, cycle,
                   streak, edge_seen, ringing_seen, matched, outage,
                   last_update_success, auth_run>>
    /\ UNCHANGED otherThanPoll

\* CoordinatorEntity.available as the entities override it:
\* switch.py lines 137-140 and binary_sensor.py lines 107-110.
\* Variant: the entity reads the available field of the retained data.
SwitchAvailable_FromData == data # None /\ Val(data).available
SwitchAvailable == last_update_success
DoorbellAvailable == last_update_success

\* asyncio.Task.done()
Done(t) == task[t] \in {"fired", "cancelled"}

\* Variant: the pending task is cancelled without asking whether it is done.
CancelPending_NoDoneCheck ==
    IF turning_off_task # 0
    THEN [task EXCEPT ![turning_off_task] = "cancelling"]
    ELSE task

\* "if self._turning_off_task and not self._turning_off_task.done():
\*      self._turning_off_task.cancel()": the tasks after it.
CancelPending ==
    IF turning_off_task # 0 /\ ~Done(turning_off_task)
    THEN [task EXCEPT ![turning_off_task] = "cancelling"]
    ELSE task

\* A step record: the operation, the invocation or task it belongs to,
\* is_on and _turning_off_task as the step found them, the status it
\* found the task of _turning_off_task in, the tasks whose status its
\* cancellation changed, the relay result it was handed, the task it
\* created and the state it wrote with async_write_ha_state.
ActOf(op, id, cancelled, result, armed, written) ==
    [op |-> op, id |-> id, was_on |-> is_on, was_task |-> turning_off_task,
     found |-> IF turning_off_task = 0 THEN "none"
               ELSE task[turning_off_task],
     cancelled |-> cancelled, result |-> result, armed |-> armed,
     written |-> written]

NoAct ==
    [op |-> "none", id |-> 0, was_on |-> FALSE, was_task |-> 0,
     found |-> "none", cancelled |-> {}, result |-> "", armed |-> 0,
     written |-> None]

\* The tasks whose status differs between two task tables.
Changed(before, after) == {t \in Triggers : before[t] # after[t]}

\* async_turn_on, lines 96-101: up to the suspension in the device call.
TurnOnStart(k) ==
    /\ call[k] = "idle"
    /\ \A j \in Triggers : j < k => call[j] # "idle"
    /\ task' = CancelPending
    /\ call' = [call EXCEPT ![k] = "awaiting"]
    /\ sent' = [sent EXCEPT ![k] = @ + 1]
    /\ fired_at_start' =
          [fired_at_start EXCEPT
              ![k] = Cardinality({t \in Triggers : task[t] = "fired"})]
    /\ last_act' = ActOf("start", k, Changed(task, CancelPending), "", 0, None)
    /\ UNCHANGED <<is_on, turning_off_task, turned_off>>
    /\ UNCHANGED otherThanSwitch

\* Variant: the state is set but no revert task is created.
TurnOnReturn_NoRevert(k, result) ==
    /\ call[k] = "awaiting"
    /\ IF TriggerRelay(result)
       THEN /\ is_on' = TRUE
            /\ call' = [call EXCEPT ![k] = "ok"]
            /\ last_act' = ActOf("return", k, {}, result, 0, Some(TRUE))
            /\ UNCHANGED <<task, turning_off_task>>
       ELSE /\ call' = [call EXCEPT ![k] = "failed"]
            /\ last_act' = ActOf("return", k, {}, result, 0, None)
            /\ UNCHANGED <<is_on, task, turning_off_task>>
    /\ UNCHANGED <<fired_at_start, turned_off, sent>>
    /\ UNCHANGED otherThanSwitch

\* Variant: the result of the device call is not looked at.
TurnOnReturn_IgnoresResult(k, result) ==
    /\ call[k] = "awaiting"
    /\ is_on' = TRUE
    /\ task' = [task EXCEPT ![k] = "sleeping"]
    /\ turning_off_task' = k
    /\ call' = [call EXCEPT ![k] = IF TriggerRelay(result) THEN "ok"
                                   ELSE "failed"]
    /\ last_act' = ActOf("return", k, {}, result, k, Some(TRUE))
    /\ UNCHANGED <<fired_at_start, turned_off, sent>>
    /\ UNCHANGED otherThanSwitch

\* async_turn_on, lines 101-115: the device call returns.
TurnOnReturn(k, result) ==
    /\ call[k] = "awaiting"
    /\ IF TriggerRelay(result)
       THEN /\ is_on' = TRUE
            /\ task' = [task EXCEPT ![k] = "sleeping"]
            /\ turning_off_task' = k
            /\ call' = [call EXCEPT ![k] = "ok"]
            /\ last_act' = ActOf("return", k, {}, result, k, Some(TRUE))
       ELSE /\ call' = [call EXCEPT ![k] = "failed"]
            /\ last_act' = ActOf("return", k, {}, result, 0, None)
            /\ UNCHANGED <<is_on, task, turning_off_task>>
    /\ UNCHANGED <<fired_at_start, turned_off, sent>>
    /\ UNCHANGED otherThanSwitch

\* async_turn_off, lines 117-124.
TurnOff ==
    /\ task' = CancelPending
    /\ is_on' = FALSE
    /\ turned_off' = TRUE
    /\ last_act' = ActOf("off", 0, Changed(task, CancelPending), "", 0,
                         Some(FALSE))
    /\ UNCHANGED <<turning_off_task, call, fired_at_start, sent>>
    /\ UNCHANGED otherThanSwitch

\* _async_turn_off_after_delay, lines 130-132: the sleep is over.
RevertFires(t) ==
    /\ task[t] = "sleeping"
    /\ is_on' = FALSE
    /\ task' = [task EXCEPT ![t] = "fired"]
    /\ last_act' = ActOf("fired", t, {}, "", 0, Some(FALSE))
    /\ UNCHANGED <<turning_off_task, call, fired_at_start, turned_off, sent>>
    /\ UNCHANGED otherThanSwitch

\* Variant: the cancelled task still turns the switch off.
RevertCancelled_TurnsOff(t) ==
    /\ task[t] = "cancelling"
    /\ is_on' = FALSE
    /\ task' = [task EXCEPT ![t] = "cancelled"]
    /\ last_act' = ActOf("cancelled", t, {}, "", 0, Some(FALSE))
    /\ UNCHANGED <<turning_off_task, call, fired_at_start, turned_off, sent>>
    /\ UNCHANGED otherThanSwitch

\* _async_turn_off_after_delay, lines 133-135: CancelledError is delivered.
RevertCancelled(t) ==
    /\ task[t] = "cancelling"
    /\ task' = [task EXCEPT ![t] = "cancelled"]
    /\ last_act' = ActOf("cancelled", t, {}, "", 0, None)
    /\ UNCHANGED <<is_on, turning_off_task, call, fired_at_start, turned_off,
                   sent>>
    /\ UNCHANGED otherThanSwitch

\* TwoNIntercomSwitch.__init__, lines 77-78.
SwitchInit ==
    /\ is_on = FALSE
    /\ turning_off_task = 0
    /\ task = [t \in Triggers |-> "none"]
    /\ call = [k \in Triggers |-> "idle"]
    /\ fired_at_start = [k \in Triggers |-> 0]
    /\ turned_off = FALSE
    /\ sent = [k \in Triggers |-> 0]
    /\ last_act = NoAct

SwitchNext ==
    \/ \E k \in Triggers : TurnOnStart(k)
    \/ \E k \in Triggers, result \in RelayResults : TurnOnReturn(k, result)
    \/ TurnOff
    \/ \E t \in Triggers : RevertFires(t)
    \/ \E t \in Triggers : RevertCancelled(t)

(***************************************************************************)
(* The snapshot cache, coordinator.py lines 190-216.  Invocation k of      *)
(* async_get_snapshot is suspended in the device request while             *)
(* snap[k].pc = "fetching".                                                *)
(***************************************************************************)
Snapshots == 1..MaxSnapshots

\* What the camera endpoint can answer: one of two frames, an image answer
\* with an empty body, an error document, an HTTP error, no answer in time.
Frames == {"frame1", "frame2"}
SnapshotAnswers ==
    Frames \cup {"empty_image", "error_json", "http_error", "timeout"}

\* api.async_get_snapshot called with the default size: the body of an
\* image answer, None for everything else.
ApiGetSnapshot(a) ==
    IF a \in Frames THEN Some(a)
    ELSE IF a = "empty_image" THEN Some("")
    ELSE None

\* "if snapshot:" on bytes | None
Truthy(snapshot) == snapshot # None /\ Val(snapshot) # ""

\* lines 196-200: the cache answers a call made at time t.
CacheHit(t) ==
    /\ snapshot_cache # None
    /\ snapshot_cache_time # None
    /\ t - Val(snapshot_cache_time) < SNAPSHOT_TTL * TicksPerSecond

\* Variant: whatever the device client returned is stored.
StoreSnapshot_Always(snapshot, current_time) ==
    [cache |-> snapshot, time |-> Some(current_time)]

\* lines 207-210: the cache after the device client returned snapshot to
\* the call that read the clock at current_time.
StoreSnapshot(snapshot, current_time) ==
    IF Truthy(snapshot)
    THEN [cache |-> snapshot, time |-> Some(current_time)]
    ELSE [cache |-> snapshot_cache, time |-> snapshot_cache_time]

NoSnapshot ==
    [pc |-> "idle", at |-> 0, requested |-> FALSE, result |-> None]

\* lines 194-205: up to the cached answer or the suspension in the request.
SnapshotStart(k) ==
    /\ snap[k].pc = "idle"
    /\ \A j \in Snapshots : j < k => snap[j].pc # "idle"
    /\ snap' = [snap EXCEPT ![k] =
                   IF CacheHit(tick)
                   THEN [pc |-> "done", at |-> tick, requested |-> FALSE,
                         result |-> snapshot_cache]
                   ELSE [pc |-> "fetching", at |-> tick, requested |-> TRUE,
                         result |-> None]]
    /\ UNCHANGED <<tick, snapshot_cache, snapshot_cache_time, snap_last>>
    /\ UNCHANGED otherThanSnapshot

\* lines 205-212: the device request of invocation k returns.
SnapshotReturn(k, a) ==
    LET snapshot == ApiGetSnapshot(a)
        stored == StoreSnapshot(snapshot, snap[k].at)
    IN  /\ snap[k].pc = "fetching"
        /\ snapshot_cache' = stored.cache
        /\ snapshot_cache_time' = stored.time
        /\ snap' = [snap EXCEPT ![k].pc = "done", ![k].result = snapshot]
        /\ snap_last' = Some([fetched |-> snapshot, result |-> snapshot,
                              before |-> <<snapshot_cache, snapshot_cache_time>>,
                              after |-> <<stored.cache, stored.time>>])
        /\ UNCHANGED tick
        /\ UNCHANGED otherThanSnapshot

\* Time passes.
TickPasses ==
    /\ tick < MaxTick
    /\ tick' = tick + 1
    /\ UNCHANGED <<snapshot_cache, snapshot_cache_time, snap, snap_last>>
    /\ UNCHANGED otherThanSnapshot

\* __init__, lines 56-57.
SnapshotInit ==
    /\ tick = 0
    /\ snapshot_cache = None
    /\ snapshot_cache_time = None
    /\ snap = [k \in Snapshots |-> NoSnapshot]
    /\ snap_last = None

SnapshotNext ==
    \/ \E k \in Snapshots : SnapshotStart(k)
    \/ \E k \in Snapshots, a \in SnapshotAnswers : SnapshotReturn(k, a)
    \/ TickPasses

(***************************************************************************)
(* The device client's snapshot request, 2n_intercom/api.py lines 306-367. *)
(* One call of async_get_snapshot(width, height): fetch.pc is "waiting"    *)
(* while a request is with the device.                                     *)
(***************************************************************************)
\* The sizes a caller may pass: nothing, the default, a larger one.
Widths == {None, Some(DEFAULT_WIDTH), Some(1920)}
Heights == {None, Some(DEFAULT_HEIGHT), Some(1080)}

\* What the camera endpoint can answer to a sized request: an image (a
\* frame or an empty body), an error document with a code, a body that is
\* no JSON, an HTTP error, no answer in time.
Images == Frames \cup {"empty_image"}
SizedAnswers ==
    Images \cup {"error_12", "error_11", "not_json", "http_error", "timeout"}

\* line 357: response.read()
ImageBody(a) == IF a = "empty_image" THEN "" ELSE a

\* lines 341-346: the error code read from a non-image body, 0 for None.
ErrorCode(a) ==
    IF a = "error_12" THEN 12 ELSE IF a = "error_11" THEN 11 ELSE 0

\* lines 314-317: "if width is None: width = 640", the same for height.
OrDefault(o, default) == IF o = None THEN default ELSE Val(o)

\* Variant: error code 12 is retried whatever size was asked for.
Retries_AnySize(a, width, height) == ErrorCode(a) = ERROR_UNSUPPORTED

\* line 348: the answer is a non-image body with error code 12 and the
\* request was not made at the default size.
Retries(a, width, height) ==
    /\ ErrorCode(a) = ERROR_UNSUPPORTED
    /\ <<width, height>> # <<DEFAULT_WIDTH, DEFAULT_HEIGHT>>

NoFetch ==
    [pc |-> "idle", asked |-> <<None, None>>, width |-> 0, height |-> 0,
     sent |-> 0, answers |-> <<>>, result |-> None]

\* lines 310-327: the call fills in the defaults and sends its request.
FetchCall(w, h) ==
    /\ fetch.pc = "idle"
    /\ fetch' = [fetch EXCEPT !.pc = "waiting", !.asked = <<w, h>>,
                               !.width = OrDefault(w, DEFAULT_WIDTH),
                               !.height = OrDefault(h, DEFAULT_HEIGHT),
                               !.sent = 1]
    /\ UNCHANGED otherThanFetch

\* lines 328-367: the device answers the request that is out.  A retry is
\* the nested call async_get_snapshot(width=640, height=480), whose result
\* is handed back unchanged.
FetchAnswer(a) ==
    /\ fetch.pc = "waiting"
    /\ fetch' =
          IF a \in Images
          THEN [fetch EXCEPT !.pc = "done", !.result = Some(ImageBody(a)),
                             !.answers = Append(@, a)]
          ELSE IF Retries(a, fetch.width, fetch.height)
          THEN [fetch EXCEPT !.width = DEFAULT_WIDTH,
                             !.height = DEFAULT_HEIGHT,
                             !.sent = @ + 1,
                             !.answers = Append(@, a)]
          ELSE [fetch EXCEPT !.pc = "done", !.result = None,
                             !.answers = Append(@, a)]
    /\ UNCHANGED otherThanFetch

FetchInit == fetch = NoFetch

FetchNext ==
    \/ \E w \in Widths, h \in Heights : FetchCall(w, h)
    \/ \E a \in SizedAnswers : FetchAnswer(a)

(***************************************************************************)
(* The lock, twon_intercom/lock.py.  Invocation k of async_unlock is       *)
(* suspended in its relay call while unlock[k].pc = "awaiting"; via tells  *)
(* whether it was entered through async_unlock or async_open.              *)
(***************************************************************************)
Unlocks == 1..MaxUnlocks

NoUnlock == [pc |-> "idle", via |-> ""]

\* A step record of the lock: the operation, the invocation, is_locked as
\* the step found it, whether the step sent a relay request and the state
\* it wrote with async_write_ha_state.
LockActOf(op, id, requested, written) ==
    [op |-> op, id |-> id, was_locked |-> is_locked,
     requested |-> requested, written |-> written]

\* async_lock, lines 79-82.
Lock ==
    /\ is_locked' = TRUE
    /\ lock_act' = LockActOf("lock", 0, FALSE, Some(TRUE))
    /\ UNCHANGED unlock
    /\ UNCHANGED otherThanLock

\* async_unlock, lines 84-87, entered directly or through async_open
\* (lines 93-96): up to the suspension in the relay call.
UnlockStart(k, via) ==
    /\ unlock[k].pc = "idle"
    /\ \A j \in Unlocks : j < k => unlock[j].pc # "idle"
    /\ unlock' = [unlock EXCEPT ![k] = [pc |-> "awaiting", via |-> via]]
    /\ lock_act' = LockActOf(via, k, TRUE, None)
    /\ UNCHANGED is_locked
    /\ UNCHANGED otherThanLock

\* async_unlock, lines 87-91: the relay call returns.
UnlockReturn(k, result) ==
    /\ unlock[k].pc = "awaiting"
    /\ IF TriggerRelay(result)
       THEN /\ is_locked' = FALSE
            /\ unlock' = [unlock EXCEPT ![k].pc = "ok"]
            /\ lock_act' = LockActOf("return", k, FALSE, Some(FALSE))
       ELSE /\ unlock' = [unlock EXCEPT ![k].pc = "failed"]
            /\ lock_act' = LockActOf("return", k, FALSE, None)
            /\ UNCHANGED is_locked
    /\ UNCHANGED otherThanLock

\* __init__, line 56.
LockInit ==
    /\ is_locked = TRUE
    /\ unlock = [k \in Unlocks |-> NoUnlock]
    /\ lock_act = LockActOf("none", 0, FALSE, None)

LockNext ==
    \/ Lock
    \/ \E k \in Unlocks, via \in {"unlock", "open"} : UnlockStart(k, via)
    \/ \E k \in Unlocks, result \in RelayResults : UnlockReturn(k, result)

(***************************************************************************)
(* The cover, 2n_intercom/cover.py.  Command k (async_open_cover or        *)
(* async_close_cover) is suspended in its relay call while                 *)
(* command[k].pc = "awaiting"; the state task it creates is ctask[k].      *)
(* All state tasks sleep for the same _pulse_duration, so their timers     *)
(* expire in the order the tasks were created.                             *)
(***************************************************************************)
Commands == 1..MaxCommands

NoCommand == [pc |-> "idle", kind |-> ""]

\* asyncio.Task.done()
CoverDone(t) == ctask[t] \in {"fired", "cancelled"}

\* "if self._state_task and not self._state_task.done():
\*      self._state_task.cancel()": the tasks after it.
CancelStateTask ==
    IF state_task # 0 /\ ~CoverDone(state_task)
    THEN [ctask EXCEPT ![state_task] = "cancelling"]
    ELSE ctask

\* async_open_cover lines 114-119, async_close_cover lines 140-145: up to
\* the suspension in the relay call.
CoverStart(k, kind) ==
    /\ command[k].pc = "idle"
    /\ \A j \in Commands : j < k => command[j].pc # "idle"
    /\ ctask' = CancelStateTask
    /\ command' = [command EXCEPT ![k] = [pc |-> "awaiting", kind |-> kind]]
    /\ UNCHANGED <<is_closed, is_opening, is_closing, state_task, timers>>
    /\ UNCHANGED otherThanCover

\* Variant: a successful close sets closing and leaves opening alone.
CoverReturn_KeepsOpening(k, result) ==
    /\ command[k].pc = "awaiting"
    /\ IF TriggerRelay(result)
       THEN /\ IF command[k].kind = "open"
               THEN /\ is_opening' = TRUE
                    /\ is_closing' = FALSE
                    /\ is_closed' = FALSE
               ELSE /\ is_closing' = TRUE
                    /\ UNCHANGED <<is_opening, is_closed>>
            /\ ctask' = [ctask EXCEPT ![k] = "sleeping"]
            /\ timers' = Append(timers, k)
            /\ state_task' = k
            /\ command' = [command EXCEPT ![k].pc = "ok"]
       ELSE /\ command' = [command EXCEPT ![k].pc = "failed"]
            /\ UNCHANGED <<is_closed, is_opening, is_closing, state_task,
                           ctask, timers>>
    /\ UNCHANGED otherThanCover

\* async_open_cover lines 119-136, async_close_cover lines 145-161: the
\* relay call returns.
CoverReturn(k, result) ==
    /\ command[k].pc = "awaiting"
    /\ IF TriggerRelay(result)
       THEN /\ IF command[k].kind = "open"
               THEN /\ is_opening' = TRUE
                    /\ is_closing' = FALSE
                    /\ is_closed' = FALSE
               ELSE /\ is_closing' = TRUE
                    /\ is_opening' = FALSE
                    /\ UNCHANGED is_closed
            /\ ctask' = [ctask EXCEPT ![k] = "sleeping"]
            /\ timers' = Append(timers, k)
            /\ state_task' = k
            /\ command' = [command EXCEPT ![k].pc = "ok"]
       ELSE /\ command' = [command EXCEPT ![k].pc = "failed"]
            /\ UNCHANGED <<is_closed, is_opening, is_closing, state_task,
                           ctask, timers>>
    /\ UNCHANGED otherThanCover

\* The timer of task t is the next to expire: no task created before it
\* is still asleep.
NextTimer(t) ==
    \A i, j \in 1..Len(timers) :
        (timers[j] = t /\ i < j) => ctask[timers[i]] # "sleeping"

\* _async_set_open_after_delay lines 167-171, _async_set_closed_after_delay
\* lines 180-184: the sleep is over.
CoverTimerFires(t) ==
    /\ ctask[t] = "sleeping"
    /\ NextTimer(t)
    /\ IF command[t].kind = "open"
       THEN /\ is_opening' = FALSE
            /\ is_closed' = FALSE
            /\ UNCHANGED is_closing
       ELSE /\ is_closing' = FALSE
            /\ is_closed' = TRUE
            /\ UNCHANGED is_opening
    /\ ctask' = [ctask EXCEPT ![t] = "fired"]
    /\ UNCHANGED <<state_task, command, timers>>
    /\ UNCHANGED otherThanCover

\* lines 172-174 and 185-187: CancelledError is delivered.
CoverTimerCancelled(t) ==
    /\ ctask[t] = "cancelling"
    /\ ctask' = [ctask EXCEPT ![t] = "cancelled"]
    /\ UNCHANGED <<is_closed, is_opening, is_closing, state_task, command,
                   timers>>
    /\ UNCHANGED otherThanCover

\* __init__, lines 83-86.
CoverInit ==
    /\ is_closed = TRUE
    /\ is_opening = FALSE
    /\ is_closing = FALSE
    /\ state_task = 0
    /\ command = [k \in Commands |-> NoCommand]
    /\ ctask = [k \in Commands |-> "none"]
    /\ timers = <<>>

CoverNext ==
    \/ \E k \in Commands, kind \in {"open", "close"} : CoverStart(k, kind)
    \/ \E k \in Commands, result \in RelayResults : CoverReturn(k, result)
    \/ \E t \in Commands : CoverTimerFires(t)
    \/ \E t \in Commands : CoverTimerCancelled(t)

(***************************************************************************)
(* The doorbell event entity, two_n_intercom/event.py.  The coordinator   *)
(* calls _handle_coordinator_update after every refresh; after a failed   *)
(* one its data is still that of the last successful refresh.             *)
(***************************************************************************)
\* What the coordinator data can hold about the doorbell: no call status, a
\* call status without doorbell_time, an empty doorbell_time, a timestamp.
EventData ==
    {"no_call_status", "no_doorbell_time", "empty", "t1", "t2", "t3"}

\* lines 54-55: coordinator.data.get("call_status", {}).get("doorbell_time").
DoorbellTime(d) ==
    IF d \in {"no_call_status", "no_doorbell_time"} THEN None
    ELSE IF d = "empty" THEN Some("")
    ELSE Some(d)

\* Variant: the entity does not remember the timestamp it fired for.
HandleCoordinatorUpdate_Forgets(d, last) ==
    LET event_time == DoorbellTime(d)
    IN  IF event_time # None /\ Val(event_time) # "" /\ event_time # last
        THEN [fire |-> TRUE, last |-> last]
        ELSE [fire |-> FALSE, last |-> last]

\* _handle_coordinator_update, lines 51-62: whether "pressed" is fired and
\* the value _last_event_time has afterwards.
HandleCoordinatorUpdate(d, last) ==
    LET event_time == DoorbellTime(d)
    IN  IF event_time # None /\ Val(event_time) # "" /\ event_time # last
        THEN [fire |-> TRUE, last |-> event_time]
        ELSE [fire |-> FALSE, last |-> last]

\* The timestamp of the last event fired, if any.
LastFired == IF events = <<>> THEN None ELSE Some(events[Len(events)])

\* The entity handles a coordinator update whose data holds d.
EventHandle(d) ==
    LET h == HandleCoordinatorUpdate(d, last_event_time)
    IN  /\ handled < MaxEvents
        /\ handled' = handled + 1
        /\ last_event_time' = h.last
        /\ events' = IF h.fire THEN Append(events, Val(DoorbellTime(d)))
                      ELSE events
        /\ event_last' = Some([data |-> d, fired |-> h.fire,
                               fired_before |-> LastFired])
        /\ UNCHANGED otherThanEvent

\* A successful refresh published data holding d.
EventUpdate(d) == EventHandle(d)

\* A failed refresh: the listeners are called with the data retained.
EventUpdateRetained ==
    /\ event_last # None
    /\ EventHandle(Val(event_last).data)

\* __init__, line 49.
EventInit ==
    /\ last_event_time = None
    /\ events = <<>>
    /\ handled = 0
    /\ event_last = None

EventNext ==
    \/ \E d \in EventData : EventUpdate(d)
    \/ EventUpdateRetained

\* __init__, lines 45-57.
PollInit ==
    /\ now = 0
    /\ scan_interval \in {5, 30}
    /\ update_interval = scan_interval
    /\ last_call_state = EmptyDict
    /\ ring_detected = FALSE
    /\ last_ring_time = None
    /\ retry_count = 0
    /\ data = None
    /\ cycle = NoCycle
    /\ streak = NoStreak
    /\ edge_seen = None
    /\ ringing_seen = None
    /\ matched = 0
    /\ outage = NoOutage
    /\ last_update_success = TRUE
    /\ auth_run = NoAuthRun
    /\ last_relay = None
    /\ relay_calls = 0

PollNext ==
    \/ \E dt \in Steps, cs \in CallStatuses : PollOk(dt, cs)
    \/ \E dt \in Steps : PollMalformed(dt)
    \/ \E dt \in Steps : PollAuthFailure(dt)
    \/ \E dt \in Steps : PollConnFailure(dt)
    \/ \E dt \in Steps : PollOtherFailure(dt)
    \/ \E result \in RelayResults : RelayTriggered(result)

Init ==
    /\ PollInit /\ SwitchInit /\ SnapshotInit /\ FetchInit /\ LockInit
    /\ TwoNInit /\ CoverInit /\ EventInit

\* The polling coordinator.
Next == PollNext

Spec == Init /\ [][Next]_vars

\* One relay switch.
SwitchSpec == Init /\ [][SwitchNext]_vars

\* One snapshot cache.
SnapshotSpec == Init /\ [][SnapshotNext]_vars

\* One snapshot request of the device client.
FetchSpec == Init /\ [][FetchNext]_vars

\* One lock.
LockSpec == Init /\ [][LockNext]_vars

\* The multi-endpoint coordinator.
TwoNSpec == Init /\ [][TwoNNext]_vars

\* One cover.
CoverSpec == Init /\ [][CoverNext]_vars

\* One doorbell event entity.
EventSpec == Init /\ [][EventNext]_vars

(***************************************************************************)
(* Properties of the ring-edge detection.                                  *)
(***************************************************************************)
\* The last cycle was a successful one of the named shape.
OkCycle == cycle.kind = "ok"
RisingEdge == OkCycle /\ cycle.cur = "ringing" /\ cycle.prev # "ringing"
ContinuedRinging == OkCycle /\ cycle.cur = "ringing" /\ cycle.prev = "ringing"
NotRinging == OkCycle /\ cycle.cur # "ringing"
\* Seconds between the optional time o and the last cycle.
Since(o) == cycle.at - Val(o)

\* C1 as stated: in a successful cycle ringActive turns true only on a
\* transition into ringing, is true after every such transition, and turns
\* false exactly when the state is not ringing and 30 seconds have elapsed
\* since ringing was last observed.
C1_AsStated ==
    OkCycle =>
        /\ (~cycle.ring_before /\ RingActive) => RisingEdge
        /\ RisingEdge => RingActive
        /\ (cycle.ring_before /\ ~RingActive)
             <=> (/\ cycle.ring_before
                  /\ NotRinging
                  /\ ringing_seen # None
                  /\ Since(ringing_seen) >= RING_TIMEOUT)

\* C1 amended: in a successful cycle ringActive turns true only on a
\* transition into ringing, is true after every such transition, and turns
\* false exactly when the state is not ringing and more than 30 seconds have
\* elapsed since the last transition into ringing.
C1_RingFollowsEdges ==
    OkCycle =>
        /\ (~cycle.ring_before /\ RingActive) => RisingEdge
        /\ RisingEdge => RingActive
        /\ (cycle.ring_before /\ ~RingActive)
             <=> (/\ cycle.ring_before
                  /\ NotRinging
                  /\ edge_seen # None
                  /\ Since(edge_seen) > RING_TIMEOUT)

\* Ringing went on after the edge for longer than the timeout, and the first
\* cycle that is not ringing dropped the flag at once.
C1_Witness ==
    /\ NotRinging /\ cycle.prev = "ringing"
    /\ cycle.ring_before /\ ~RingActive
    /\ Since(ringing_seen) < RING_TIMEOUT
    /\ Since(edge_seen) > RING_TIMEOUT

\* C2: a successful cycle whose state is ringing while the retained state
\* was not ringing sets ringActive and sets lastRingTime to the cycle's time.
C2_RisingEdgeStamps ==
    RisingEdge =>
        /\ ring_detected
        /\ RingActive
        /\ last_ring_time = Some(cycle.at)
        /\ LastRingTime = Some(cycle.at)

\* A re-entry into ringing while the flag of the previous ring was still up.
C2_Witness ==
    /\ RisingEdge /\ cycle.ring_before
    /\ cycle.lrt_before # None /\ Val(cycle.lrt_before) < cycle.at
    /\ last_ring_time = Some(cycle.at)

\* C3 as stated: in a successful cycle that is not ringing and finds the
\* flag up, the flag stays up exactly while fewer than 30 seconds have
\* elapsed since lastRingTime.
C3_AsStated ==
    (NotRinging /\ cycle.ring_before) =>
        (ring_detected
            <=> (cycle.lrt_before # None
                 /\ Since(cycle.lrt_before) < RING_TIMEOUT))

\* C3 amended: in a successful cycle that is not ringing and finds the flag
\* up, the flag stays up exactly while no more than 30 seconds have elapsed
\* since lastRingTime, and is dropped in the first such cycle after that.
C3_RingOutlastsCall ==
    (NotRinging /\ cycle.ring_before) =>
        (ring_detected
            <=> (cycle.lrt_before # None
                 /\ Since(cycle.lrt_before) <= RING_TIMEOUT))

\* The call ended, the flag stayed up for a cycle and was then dropped.
C3_Witness ==
    /\ NotRinging /\ cycle.prev # "ringing"
    /\ cycle.ring_before /\ ~ring_detected
    /\ Since(cycle.lrt_before) > RING_TIMEOUT

\* C4: a successful cycle in which the retained and the current state are
\* both ringing finds ringActive true, leaves it true and leaves
\* lastRingTime as it was.
C4_ContinuedRingingKeeps ==
    ContinuedRinging =>
        /\ cycle.ring_before
        /\ ring_detected
        /\ RingActive
        /\ last_ring_time = cycle.lrt_before

\* Ringing that has lasted longer than the timeout.
C4_Witness ==
    /\ ContinuedRinging
    /\ ring_detected
    /\ Since(last_ring_time) > RING_TIMEOUT

\* C5: after the polled sequence idle, ringing with caller Alice the ring is
\* active and callerInfo is that caller; after the idle that follows within
\* the timeout the ring is still active.
C5_Scenario ==
    /\ (OkCycle /\ matched = 2) => (RingActive /\ CallerInfo = Alice)
    /\ (OkCycle /\ matched = 3 /\ Since(last_ring_time) <= RING_TIMEOUT)
          => RingActive

\* The third cycle of the scenario, inside the timeout.
C5_Witness ==
    /\ OkCycle /\ matched = 3
    /\ Since(last_ring_time) <= RING_TIMEOUT
    /\ RingActive
    /\ CallerInfo = NoCaller

(***************************************************************************)
(* Properties of the failure handling.                                     *)
(***************************************************************************)
\* The last cycle failed with a connection or timeout error.
ConnCycle == cycle.kind = "conn"
\* Connection failures counted since the counter was last 0.
Counted == streak.base + streak.n

\* C9 as stated: the fifth of five connection failures in a row ends as
\* ExhaustedRetries.
C9_AsStated ==
    (ConnCycle /\ streak.n = MAX_RETRIES)
        => cycle.outcome = "ExhaustedRetries"

\* C9 amended: a connection failure ends as ExhaustedRetries exactly when
\* five connection failures were already counted; the fifth of a run that
\* started from a counter of 0 ends as UpdateFailed and the sixth is the
\* first to end as ExhaustedRetries.
C9_SixthIsFatal ==
    ConnCycle =>
        /\ cycle.outcome \in {"UpdateFailed", "ExhaustedRetries"}
        /\ cycle.outcome = "ExhaustedRetries" <=> Counted > MAX_RETRIES

\* The sixth connection failure in a row after a reset counter.
C9_Witness ==
    /\ ConnCycle /\ streak.base = 0 /\ streak.n = MAX_RETRIES + 1
    /\ cycle.outcome = "ExhaustedRetries"

C11_SuccessResets ==
    /\ OkCycle => retry_count = 0
    /\ (ConnCycle /\ cycle.retry_before = 0) =>
          /\ retry_count = 1
          /\ cycle.outcome = "UpdateFailed"
          /\ cycle.delay = 2

\* A successful cycle that found the counter at the retry bound.
C11_Witness ==
    OkCycle /\ cycle.retry_before = MAX_RETRIES /\ retry_count = 0

\* The last cycle failed with an authentication error.
AuthCycle == cycle.kind = "auth"

\* C12: a cycle whose device call fails with an authentication failure
\* ends as AuthenticationRequired and leaves the retry counter as it found
\* it.
C12_AuthIsImmediate ==
    AuthCycle =>
        /\ cycle.outcome = "AuthenticationRequired"
        /\ retry_count = cycle.retry_before

\* An authentication failure with retries still left.
C12_Witness ==
    /\ AuthCycle /\ cycle.retry_before = 2
    /\ retry_count = 2 /\ cycle.outcome = "AuthenticationRequired"

\* C13: in a run of cycles that all fail with an authentication failure
\* the failure is reported once.
C13_ReportedOnce == auth_run.n >= 1 => auth_run.reports = 1

\* C14: a cycle that fails with an error that is neither an authentication
\* nor a connection failure ends as UpdateFailed and leaves the retry
\* counter as it found it.
C14_OtherLeavesCounter ==
    cycle.kind \in {"other", "malformed"} =>
        /\ cycle.outcome = "UpdateFailed"
        /\ retry_count = cycle.retry_before

Outcomes ==
    {"DerivedState", "UpdateFailed", "AuthenticationRequired",
     "ExhaustedRetries"}

\* Every combination of answers of the three endpoints of the
\* multi-endpoint coordinator ends as published data or as UpdateFailed.
TwoNClassified ==
    \A answers \in [1..3 -> EndpointAnswers] :
        TwoNUpdate(answers).outcome \in {"DerivedState", "UpdateFailed"}

\* C15: every cycle ends in one of the four outcomes, DerivedState exactly
\* for the cycles that publish; no exception of the device client is the
\* outcome of a cycle.
C15_ClassifiedOutcome ==
    /\ TwoNClassified
    /\ cycle.kind # "none" =>
          /\ cycle.outcome \in Outcomes
          /\ cycle.outcome = "DerivedState" <=> OkCycle
          /\ OkCycle => data # None

\* A cycle whose device call raised an error the client could not classify.
C15_Witness == cycle.kind = "other" /\ cycle.outcome = "UpdateFailed"

\* C16: the available flag of the published data is true exactly when the
\* most recent cycle succeeded.
C16_AvailableTracksCycle ==
    data # None => (Val(data).available <=> OkCycle)

\* C17: once a cycle has run, the switch and the doorbell are available
\* exactly when the last cycle succeeded, also after a failed relay
\* actuation and while a ring is active.
C17_AvailabilityFollowsPoll ==
    cycle.kind # "none" =>
        /\ SwitchAvailable <=> OkCycle
        /\ DoorbellAvailable <=> OkCycle

\* A relay actuation failed and a ring is active after a successful cycle:
\* the switch is available.
C17_Witness ==
    /\ last_relay = Some(FALSE) /\ RingActive
    /\ OkCycle /\ SwitchAvailable

\* What the poll cycles keep: the retry counter, the ring state, the
\* retained call state and the published data.
polled == <<retry_count, ring_detected, last_ring_time, last_call_state, data>>

\* C26: a step in which async_trigger_relay is called, whether the relay
\* request succeeds or fails, leaves the retry counter, the ring state,
\* the retained call state and the published data as they are.
C26_ActuationLeavesPolling ==
    [][relay_calls' # relay_calls => UNCHANGED polled]_vars

\* A relay request has failed between poll cycles that left a counted
\* failure, an active ring and published data.
C26_Witness ==
    /\ relay_calls > 0 /\ last_relay = Some(FALSE)
    /\ retry_count > 0 /\ ring_detected /\ data # None

(***************************************************************************)
(* Properties of the relay switch.                                         *)
(***************************************************************************)
\* Revert tasks whose timer is still to fire.
Pending == {t \in Triggers : task[t] = "sleeping"}
Fired == {t \in Triggers : task[t] = "fired"}
\* No invocation is suspended and no task is still to run.
Quiescent ==
    /\ \A k \in Triggers : call[k] # "awaiting"
    /\ \A t \in Triggers : task[t] \notin {"sleeping", "cancelling"}

\* C6: at every moment at most one revert timer of the switch is pending.
C6_AtMostOnePending == Cardinality(Pending) <= 1

\* C7: two triggers whose device calls succeed, the second one started
\* before any revert fired, and no other command: once everything has run,
\* exactly one revert has occurred.
C7_ExactlyOneRevert ==
    (/\ call[1] = "ok" /\ call[2] = "ok" /\ call[3] = "idle"
     /\ fired_at_start[2] = 0
     /\ ~turned_off
     /\ Quiescent)
        => Cardinality(Fired) = 1

\* The last step was the return of a device call that reported success
\* (failure).
ReturnedOk == last_act.op = "return" /\ TriggerRelay(last_act.result)
ReturnedFailed == last_act.op = "return" /\ ~TriggerRelay(last_act.result)

\* C22: when the device call of a trigger reports success the switch is on
\* when the trigger returns, the on state has been written to the
\* subscribers and a revert task of that trigger is sleeping as the
\* switch's pending task; a revert task that fires turns the switch off
\* and writes the off state; every sleeping revert task can fire.
C22_PulseOnSuccess ==
    /\ ReturnedOk =>
          /\ call[last_act.id] = "ok"
          /\ is_on
          /\ last_act.written = Some(TRUE)
          /\ last_act.armed = last_act.id
          /\ task[last_act.id] = "sleeping"
          /\ turning_off_task = last_act.id
    /\ last_act.op = "fired" =>
          /\ ~is_on
          /\ last_act.written = Some(FALSE)
          /\ task[last_act.id] = "fired"
    /\ \A t \in Triggers : task[t] = "sleeping" => ENABLED RevertFires(t)

\* One trigger succeeded and its revert has fired: the switch is off again.
C22_Witness ==
    /\ last_act.op = "fired" /\ last_act.id = 1 /\ last_act.was_on
    /\ call[1] = "ok" /\ call[2] = "idle" /\ ~turned_off
    /\ ~is_on

\* C23: every result of the relay call other than success makes
\* async_trigger_relay return false; the trigger that is handed false
\* leaves the switch state and the pending-task reference as they were,
\* writes nothing and creates no task; every trigger sends one relay
\* request.
C23_FailureChangesNothing ==
    /\ \A result \in RelayResults \ {"success"} : ~TriggerRelay(result)
    /\ ReturnedFailed =>
          /\ call[last_act.id] = "failed"
          /\ is_on = last_act.was_on
          /\ turning_off_task = last_act.was_task
          /\ last_act.written = None
          /\ last_act.armed = 0
    /\ \A k \in Triggers :
          /\ call[k] = "failed" => task[k] = "none"
          /\ call[k] # "idle" => sent[k] = 1

\* A trigger whose relay call timed out while the switch was on.
C23_Witness ==
    /\ ReturnedFailed /\ last_act.result = "timeout"
    /\ last_act.was_on /\ is_on
    /\ sent[last_act.id] = 1

\* C24: the step in which a cancelled revert task ends changes neither the
\* switch state nor writes it, and a task that ended cancelled never
\* fired.
C24_CancelledRevertIsSilent ==
    last_act.op = "cancelled" =>
        /\ task[last_act.id] = "cancelled"
        /\ is_on = last_act.was_on
        /\ last_act.written = None

\* A revert task cancelled by a newer trigger ends while the switch is on.
C24_Witness ==
    /\ last_act.op = "cancelled" /\ last_act.was_on /\ is_on
    /\ ~turned_off

\* C28: a trigger or turn-off that finds the switch's task fired or
\* cancelled changes the status of no task and goes on as one that finds
\* no task: the trigger is suspended in its relay call, the turn-off has
\* switched off.
C28_CancelIsIdempotent ==
    (last_act.op \in {"start", "off"}
        /\ last_act.found \in {"none", "fired", "cancelled"}) =>
        /\ last_act.cancelled = {}
        /\ last_act.op = "start" =>
              /\ call[last_act.id] = "awaiting"
              /\ is_on = last_act.was_on
        /\ last_act.op = "off" => ~is_on

\* A trigger that found the task of an earlier trigger already fired.
C28_Witness ==
    /\ last_act.op = "start" /\ last_act.found = "fired"
    /\ last_act.cancelled = {} /\ call[last_act.id] = "awaiting"

\* C29: once no trigger is suspended and no revert task is still to run,
\* the switch is off.
C29_RevertsToIdle == Quiescent => ~is_on

(***************************************************************************)
(* Properties of the action methods.                                       *)
(***************************************************************************)
\* C27: async_trigger_relay returns a boolean for every result of the
\* relay request, and every call of async_open_door and
\* async_switch_control raises nothing and returns a boolean.
C27_ActionsReturnBoolean ==
    /\ \A result \in RelayResults : TriggerRelay(result) \in BOOLEAN
    /\ twon_action # None =>
          /\ Val(twon_action).raised = ""
          /\ Val(twon_action).value \in {"True", "False"}

(***************************************************************************)
(* Properties of the lock.                                                 *)
(***************************************************************************)
\* No async_unlock invocation is suspended; the lock creates no task.
LockQuiescent == \A k \in Unlocks : unlock[k].pc # "awaiting"

\* C25: an unlock whose relay call succeeds leaves the lock unlocked, and
\* once nothing of the lock is still running the lock is locked again;
\* lock() leaves the lock locked and sends no relay request.
C25_UnlockPulsesLockFlips ==
    /\ (lock_act.op = "return" /\ unlock[lock_act.id].pc = "ok")
          => ~is_locked
    /\ LockQuiescent => is_locked
    /\ lock_act.op = "lock" => (is_locked /\ ~lock_act.requested)

(***************************************************************************)
(* Properties of the cover.                                                *)
(***************************************************************************)
\* The commands issued so far and the last of them.
Issued == {k \in Commands : command[k].pc # "idle"}
LastIssued == CHOOSE k \in Issued : \A j \in Issued : j <= k
\* Every issued command has returned with success and no state task is
\* still to run.
AllDone ==
    /\ Issued # {}
    /\ \A k \in Issued : command[k].pc = "ok"
    /\ \A t \in Commands : ctask[t] \notin {"sleeping", "cancelling"}

\* C30: once every command has succeeded and every timer has run, the
\* cover is closed exactly when the last command issued was a close, and
\* it is neither opening nor closing.
C30_LastCommandWins ==
    AllDone =>
        /\ is_closed <=> command[LastIssued].kind = "close"
        /\ ~is_opening
        /\ ~is_closing

\* C31: the cover is never opening and closing at once.
C31_NotOpeningAndClosing == ~(is_opening /\ is_closing)

\* A close has succeeded while the state task of an earlier open is still
\* asleep: the cover is closing and no longer opening.
C31_Witness ==
    /\ command[1].kind = "open" /\ command[1].pc = "ok"
    /\ ctask[1] = "sleeping"
    /\ command[2].kind = "close" /\ command[2].pc = "ok"
    /\ is_closing /\ ~is_opening

\* C32: the cover is never opening and closed at once.
C32_OpeningIsNotClosed == is_opening => ~is_closed

\* The last step was a poll cycle that failed.
FailedCycle == now' # now /\ cycle'.kind # "ok"
\* The last cycle published and was the first to do so after failed ones.
AfterOutage == OkCycle /\ outage.after_failed

\* C33: a failed poll cycle of any kind leaves the ring flag, lastRingTime,
\* the retained call state and the published data as they were; so the first
\* successful cycle after failed ones detects a ring that started in between
\* as a rising edge, and does not detect again a ring that was already on in
\* the successful cycle before them.
C33_FailedCycleKeepsRingState ==
    /\ [][FailedCycle =>
             UNCHANGED <<ring_detected, last_ring_time, last_call_state,
                         data>>]_vars
    /\ [](AfterOutage /\ cycle.cur = "ringing" /\ outage.was # "ringing"
            => ring_detected /\ last_ring_time = Some(cycle.at))
    /\ [](AfterOutage /\ cycle.cur = "ringing" /\ outage.was = "ringing"
            => /\ ring_detected = cycle.ring_before
               /\ last_ring_time = cycle.lrt_before
               /\ last_ring_time # Some(cycle.at))

\* Ringing went on across failed cycles, one of them a connection failure,
\* for longer than the ring timeout, and the successful cycle after them did
\* not stamp it again.
C33_Witness ==
    /\ AfterOutage /\ cycle.cur = "ringing" /\ outage.was = "ringing"
    /\ cycle.retry_before > 0 /\ ring_detected
    /\ last_ring_time # None /\ Since(last_ring_time) > RING_TIMEOUT

\* The delays a connection failure can compute.
Delays == {2 ^ n : n \in 1..MAX_RETRIES}

\* C34: the failure counter is always between 0 and 5, and every delay
\* computed by a cycle that fails to connect is 2 to the power of the
\* counter, one of 2, 4, 8, 16 and 32 seconds, below the cap of 60.
C34_CounterAndDelayBounded ==
    /\ retry_count \in 0..MAX_RETRIES
    /\ (ConnCycle /\ cycle.outcome = "UpdateFailed") =>
            /\ cycle.delay \in Delays
            /\ cycle.delay = 2 ^ retry_count
            /\ cycle.delay < MAX_DELAY
    /\ (ConnCycle /\ cycle.outcome # "UpdateFailed") => cycle.delay = 0

\* The fifth connection failure in a row computed the largest delay.
C34_Witness ==
    /\ ConnCycle /\ cycle.outcome = "UpdateFailed"
    /\ retry_count = MAX_RETRIES
    /\ cycle.delay = 2 ^ MAX_RETRIES

\* C35: the failure counter is the number of cycles that failed to connect
\* since the last successful cycle, up to the bound, whatever other failures
\* lie between them; and a cycle that fails to connect after more than that
\* many is reported as ExhaustedRetries.
C35_CountsSinceLastSuccess ==
    /\ retry_count = Min(outage.conn, MAX_RETRIES)
    /\ (ConnCycle /\ outage.conn > MAX_RETRIES) =>
            cycle.outcome = "ExhaustedRetries"

\* C36: a cycle that does not publish leaves a counter above 0 above 0.
C36_OnlyPublishingResets ==
    (cycle.kind \in {"malformed", "auth", "conn", "other"}
     /\ cycle.retry_before > 0) => retry_count > 0

\* The ring was stamped more than the timeout before the last cycle.
RingExpired ==
    last_ring_time # None /\ Since(last_ring_time) > RING_TIMEOUT

\* C37: the ring flag is dropped by the first successful cycle that is not
\* ringing and runs more than 30 seconds after the ring was stamped, so it
\* falls once such cycles occur; it is dropped by successful cycles only,
\* and a failed cycle leaves it up however long ago the ring was stamped.
C37_RingFallsOnlyInSuccessfulCycle ==
    /\ []((NotRinging /\ RingExpired) => ~RingActive)
    /\ [](cycle.kind \in {"malformed", "auth", "conn", "other"}
            => ring_detected = cycle.ring_before)
    /\ [][(ring_detected /\ ~ring_detected')
             => (now' # now /\ cycle'.kind = "ok"
                 /\ cycle'.cur # "ringing")]_vars

\* The call state left ringing, then every cycle failed: the flag is still
\* up although the ring was stamped more than 30 seconds ago.
C37_Witness ==
    /\ cycle.kind \in {"malformed", "auth", "conn", "other"}
    /\ outage.state # "ringing" /\ outage.state # ""
    /\ RingExpired /\ RingActive

\* C38: a coordinator update makes the event entity fire "pressed" exactly
\* when the data holds a doorbell_time that is not empty and differs from
\* the timestamp of the last event fired; the event carries that timestamp,
\* and an update that repeats the timestamp of the last event fires nothing.
C38_FiresOncePerDoorbellTime ==
    event_last # None =>
        LET e == Val(event_last)
            carried == DoorbellTime(e.data)
        IN  /\ e.fired <=> (/\ carried \notin {None, Some("")}
                            /\ carried # e.fired_before)
            /\ e.fired => LastFired = carried
            /\ ~e.fired => LastFired = e.fired_before
            /\ \A i \in 1..(Len(events) - 1) : events[i] # events[i + 1]

\* An event was fired for a timestamp and the update after it carried the
\* same timestamp and fired nothing.
C38_Witness ==
    /\ event_last # None
    /\ ~Val(event_last).fired
    /\ events # <<>>
    /\ DoorbellTime(Val(event_last).data) = LastFired

\* The keys of the three endpoints.
AllKeys == {Endpoints[i] : i \in 1..3}

\* C39: a cycle in which no endpoint fails otherwise than by a 404
\* succeeds and publishes the keys of all endpoints but those that answered
\* 404 (and those that answered an empty document); a cycle in which any
\* endpoint fails otherwise ends as UpdateFailed and leaves the published
\* data as it was.
C39_NotFoundIsSkipped ==
    twon_cycle # None =>
        LET c == Val(twon_cycle)
        IN  /\ ~c.fed.broken =>
                  /\ c.outcome = "DerivedState"
                  /\ twon_data = Some(c.keys)
                  /\ c.keys = AllKeys \ (c.fed.missing \cup c.fed.empty)
            /\ c.fed.broken =>
                  /\ c.outcome = "UpdateFailed"
                  /\ twon_data = c.fed.before

\* The switch capabilities answered 404 and the other two endpoints a
\* document: the cycle published those two keys.
C39_Witness ==
    /\ twon_cycle # None
    /\ Val(twon_cycle).fed.missing = {"switch_caps"}
    /\ Val(twon_cycle).fed.empty = {}
    /\ Val(twon_cycle).outcome = "DerivedState"
    /\ twon_data = Some({"status", "call_status"})

(***************************************************************************)
(* Properties of the snapshot cache.                                       *)
(***************************************************************************)
\* Invocations suspended in a device request.
Outstanding == {k \in Snapshots : snap[k].pc = "fetching"}
\* Invocation k has returned an image.
ReturnedImage(k) == snap[k].pc = "done" /\ Truthy(snap[k].result)
\* Invocation j read the clock less than a second after invocation i did.
Within(i, j) ==
    /\ snap[i].at <= snap[j].at
    /\ snap[j].at - snap[i].at < SNAPSHOT_TTL * TicksPerSecond

\* C18: of two calls made within one second of each other that both
\* return an image, the first one fetching it from the device, the second
\* issues no device request and returns the same bytes.
C18_OneRequestPerSecond ==
    \A i, j \in Snapshots :
        (/\ i < j /\ ReturnedImage(i) /\ ReturnedImage(j)
         /\ snap[i].requested /\ Within(i, j))
            => /\ ~snap[j].requested
               /\ snap[j].result = snap[i].result

\* C19: at no time are two device snapshot requests outstanding.
C19_SingleFlight == Cardinality(Outstanding) <= 1

\* C20: when the device client returns None (the device sent no image, an
\* error, or nothing in time) the call returns None and the cache holds
\* the bytes and the time it held before; an image answer with an empty
\* body leaves the cache alone as well.
C20_FailureKeepsCache ==
    snap_last # None =>
        /\ Val(snap_last).fetched = None =>
              /\ Val(snap_last).result = None
              /\ Val(snap_last).after = Val(snap_last).before
        /\ ~Truthy(Val(snap_last).fetched) =>
              Val(snap_last).after = Val(snap_last).before

\* A fetch failed while the cache held an older image: the image and its
\* time are still there.
C20_Witness ==
    /\ snap_last # None
    /\ Val(snap_last).fetched = None /\ Val(snap_last).result = None
    /\ Val(snap_last).before[1] # None
    /\ snapshot_cache = Val(snap_last).before[1]
    /\ snapshot_cache_time = Val(snap_last).before[2]

(***************************************************************************)
(* Properties of the device client's snapshot request.                     *)
(***************************************************************************)
\* The call was made at a size other than 640x480.
OtherSize ==
    <<OrDefault(fetch.asked[1], DEFAULT_WIDTH),
      OrDefault(fetch.asked[2], DEFAULT_HEIGHT)>>
        # <<DEFAULT_WIDTH, DEFAULT_HEIGHT>>

\* C21: a call sends at most two requests; it sends a second one exactly
\* when it was made at another size than 640x480 and the first answer was
\* error code 12, and that one is sent at 640x480; when the second request
\* is answered the call is over, with None unless the answer is an image.
C21_OneFallbackRetry ==
    /\ fetch.sent <= 2
    /\ Len(fetch.answers) <= fetch.sent
    /\ fetch.pc = "done" => Len(fetch.answers) = fetch.sent
    /\ fetch.sent = 2 <=> (OtherSize /\ Len(fetch.answers) >= 1
                             /\ fetch.answers[1] = "error_12")
    /\ fetch.sent = 2 =>
          <<fetch.width, fetch.height>> = <<DEFAULT_WIDTH, DEFAULT_HEIGHT>>
    /\ Len(fetch.answers) = 2 =>
          /\ fetch.pc = "done"
          /\ fetch.result = IF fetch.answers[2] \in Images
                            THEN Some(ImageBody(fetch.answers[2])) ELSE None

\* A 1920x1080 call answered with error code 12 twice: two requests, None.
C21_Witness ==
    /\ fetch.pc = "done" /\ fetch.asked = <<Some(1920), Some(1080)>>
    /\ fetch.answers = <<"error_12", "error_12">>
    /\ fetch.sent = 2 /\ fetch.result = None

====
